---- MODULE Spec2Model ----
(***************************************************************************)
(* Model of the TTSNewsReader backend (src/backend/server.js, the graph    *)
(* executor server, lines 1-892): the POST /tts handler, generateTTSAudio  *)
(* with its translation step and its three synthesis tiers, the WAV        *)
(* encoder convertAudioDataToWAV and the tone generator generateTestAudio. *)
(*                                                                         *)
(* The other endpoints of that server are modelled with it: GET            *)
(* /news-audio (with the process-wide audio cache), GET /audio/:audioId    *)
(* and GET /health.                                                        *)
(*                                                                         *)
(* Spec and FairSpec follow one POST /tts request, ApiSpec one request to  *)
(* any endpoint, CancelSpec one POST /tts request whose caller may go away *)
(* during a drain, and CacheSpec several requests, answered one after      *)
(* another, that share the audio cache and the clock.  RestSpec is Spec     *)
(* with the outcome of the REST call recorded, BatchSpec one GET            *)
(* /news-audio request with all its articles, and InFlightSpec the          *)
(* identifiers of several invocations of generateTTSAudio under way at      *)
(* once.                                                                    *)
(*                                                                         *)
(* Two more programs of the repository have their own specifications:      *)
(* CliSpec follows run() of src/backend/translate-graph.js, and ViewSpec    *)
(* the view model of the iOS app (NewsReaderViewModel with NewsService and  *)
(* MetricsModel).                                                           *)
(*                                                                         *)
(* One request is followed from its arrival to its response.  The handler  *)
(* is an async function: every action below is the code that runs between  *)
(* two awaits, and the outcome of the awaited remote call (value, stream    *)
(* chunk, or exception) is the action's input.                             *)
(*                                                                         *)
(* Texts are sequences of one-character strings.  Audio samples are exact  *)
(* rationals <<n, d>> (d > 0): a Float32 sample times 32767 is exact in a  *)
(* double, so rational arithmetic is what the code computes.  Logging-only *)
(* state of the code (resultCount, initialText, voiceName) is left out.    *)
(***************************************************************************)
EXTENDS Integers, Sequences, FiniteSets, TLC

\* ------------------------------------------------------------------ bounds
MaxDeltas  == 2        \* most text deltas of one translation stream
MaxChunks  == 2        \* most audio chunks of one synthesis stream
MaxRequests == 2       \* most requests the server answers one after another
MaxClock   == 1        \* Date.now() runs from 0 to this many milliseconds
MaxInFlight == 2       \* most invocations of generateTTSAudio under way at once
MaxArticles == 2       \* most articles of one GET /news-audio request (pageSize)
MaxFetched == 2        \* most articles in one response of the news API
MaxOps     == 4        \* most operations the user of the app starts

\* ------------------------------------------------------- program constants
MaxTextChars   == 5000     \* text.length > 5000 is rejected
ToneSampleRate == 22050    \* sampleRate of generateTestAudio and of the TTS graph
PcmScale       == 32767    \* Math.floor(sample * 32767)
SampleArticles == 6        \* the articles of NewsService.loadSampleData()
ToneMaxTenths  == 30       \* Math.min(text.length * 0.1, 3), in tenths of a second

\* ------------------------------------------------------------------- texts
Whitespace == {" ", "\n"}

RECURSIVE TrimStart(_)
TrimStart(s) ==
    IF s # <<>> /\ Head(s) \in Whitespace THEN TrimStart(Tail(s)) ELSE s

RECURSIVE TrimEnd(_)
TrimEnd(s) ==
    IF s # <<>> /\ s[Len(s)] \in Whitespace
    THEN TrimEnd(SubSeq(s, 1, Len(s) - 1)) ELSE s

\* String.prototype.trim
Trim(s) == TrimEnd(TrimStart(s))

\* String.prototype.startsWith
StartsWith(s, prefix) ==
    /\ Len(s) >= Len(prefix)
    /\ SubSeq(s, 1, Len(prefix)) = prefix

requiresTranslation_inverted(language) == StartsWith(language, <<"e", "n", "-">>)

requiresTranslation(language) == ~StartsWith(language, <<"e", "n", "-">>)

\* ------------------------------------------------------------------- bytes
Min(a, b) == IF a < b THEN a ELSE b

\* Buffer.writeUInt16LE / writeUInt32LE / writeInt16LE: the bytes written.
writeUInt16LE(v) == <<v % 256, (v \div 256) % 256>>

writeUInt32LE(v) ==
    <<v % 256, (v \div 256) % 256, (v \div 65536) % 256, (v \div 16777216) % 256>>

writeInt16LE(v) == writeUInt16LE((v + 65536) % 65536)

\* Reading the fields back, as a WAV reader does.
readUInt16LE(b, off) == b[off + 1] + 256 * b[off + 2]

readUInt32LE(b, off) ==
    b[off + 1] + 256 * b[off + 2] + 65536 * b[off + 3] + 16777216 * b[off + 4]

readInt16LE(b, off) ==
    LET u == readUInt16LE(b, off) IN IF u >= 32768 THEN u - 65536 ELSE u

Ascii_RIFF == <<82, 73, 70, 70>>
Ascii_WAVE == <<87, 65, 86, 69>>
Ascii_fmt  == <<102, 109, 116, 32>>
Ascii_data == <<100, 97, 116, 97>>

\* ----------------------------------------------------------------- buffers
\* A Buffer: head and body are its bytes; the 440 Hz sine payload of the tone
\* generator is not materialised byte by byte, only its length (toneBytes).
NoBuffer == [kind |-> "none", head |-> <<>>, body |-> <<>>, toneBytes |-> 0]

BufferLength(b) == Len(b.head) + Len(b.body) + b.toneBytes

\* ----------------------------------------------------------------- encoder
\* Math.max(-1, Math.min(1, s)) on a rational <<n, d>>, d > 0.
Clamp_none(s) == s

Clamp(s) ==
    LET upper == IF s[1] > s[2] THEN <<1, 1>> ELSE s
    IN  IF upper[1] < -upper[2] THEN <<-1, 1>> ELSE upper

\* Math.floor(sample * 32767)
Quantize(s) == (Clamp(s)[1] * PcmScale) \div Clamp(s)[2]

WavDataSize_oneBytePerSample(audioData) == Len(audioData)

\* const dataSize = audioData.length * 2
WavDataSize(audioData) == Len(audioData) * 2

WavHeader(dataSize, sampleRate) ==
    LET numChannels   == 1
        bitsPerSample == 16
        byteRate      == (sampleRate * numChannels * bitsPerSample) \div 8
        blockAlign    == (numChannels * bitsPerSample) \div 8
        chunkSize     == 36 + dataSize
    IN  Ascii_RIFF \o writeUInt32LE(chunkSize) \o Ascii_WAVE
        \o Ascii_fmt \o writeUInt32LE(16) \o writeUInt16LE(1)
        \o writeUInt16LE(numChannels) \o writeUInt32LE(sampleRate)
        \o writeUInt32LE(byteRate) \o writeUInt16LE(blockAlign)
        \o writeUInt16LE(bitsPerSample)
        \o Ascii_data \o writeUInt32LE(dataSize)

\* pcmData = Buffer.alloc(dataSize), then writeInt16LE(intSample, i * 2) for
\* every sample i: byte k of the buffer belongs to sample k \div 2.
WavPcmData(audioData) ==
    [k \in 1..(Len(audioData) * 2) |->
        writeInt16LE(Quantize(audioData[(k + 1) \div 2]))[((k - 1) % 2) + 1]]

convertAudioDataToWAV(audioData, sampleRate) ==
    [kind      |-> "wav",
     head      |-> WavHeader(WavDataSize(audioData), sampleRate),
     body      |-> WavPcmData(audioData),
     toneBytes |-> 0]

\* ---------------------------------------------------------- tone generator
\* numSamples = Math.floor(sampleRate * Math.min(text.length * 0.1, 3)); the
\* double arithmetic gives exactly this integer for every length 0..5000.
ToneNumSamples_uncapped(text) == (ToneSampleRate * Len(text)) \div 10

ToneNumSamples(text) ==
    (ToneSampleRate * Min(Len(text), ToneMaxTenths)) \div 10

generateTestAudio(text) ==
    LET numSamples == ToneNumSamples(text)
    IN  [kind      |-> "tone",
         head      |-> Ascii_RIFF \o writeUInt32LE(36 + numSamples * 2)
                       \o Ascii_WAVE \o Ascii_fmt \o writeUInt32LE(16)
                       \o writeUInt16LE(1) \o writeUInt16LE(1)
                       \o writeUInt32LE(ToneSampleRate)
                       \o writeUInt32LE(ToneSampleRate * 2)
                       \o writeUInt16LE(2) \o writeUInt16LE(16)
                       \o Ascii_data \o writeUInt32LE(numSamples * 2),
         body      |-> <<>>,
         toneBytes |-> numSamples * 2]

\* ------------------------------------------------------------------ base64
\* Buffer.from(audioContent, 'base64'): audioContent as its sextets; every
\* group of four sextets gives three bytes, a last group of three gives two,
\* of two gives one, and a lone sextet gives none.
RECURSIVE Base64Decode(_)
Base64Decode(s) ==
    IF Len(s) < 2 THEN <<>>
    ELSE LET b1 == <<(s[1] * 4 + s[2] \div 16) % 256>>
             b2 == IF Len(s) >= 3
                   THEN <<((s[2] % 16) * 16 + s[3] \div 4) % 256>> ELSE <<>>
             b3 == IF Len(s) >= 4
                   THEN <<((s[3] % 4) * 64 + s[4]) % 256>> ELSE <<>>
         IN  b1 \o b2 \o b3
             \o (IF Len(s) > 4 THEN Base64Decode(SubSeq(s, 5, Len(s))) ELSE <<>>)

\* ------------------------------------------------------------- the inputs
\* The request body's text: absent, not a string, or a string.
LongText == [i \in 1..(MaxTextChars + 1) |-> "a"]

\* A text one character longer than the tone generator's cap of 30.
CappedText == [i \in 1..(ToneMaxTenths + 1) |-> "a"]

Bodies ==
    {[kind |-> "missing", s |-> <<>>], [kind |-> "number", s |-> <<>>]}
    \cup {[kind |-> "string", s |-> t] :
            t \in {<<>>, <<" ">>, <<" ", "\n">>, <<"a">>, <<" ", "a">>}}
    \cup {[kind |-> "string", s |-> CappedText]}
    \cup {[kind |-> "string", s |-> LongText]}

\* Language tags: en-US, es-ES, a bare "en", and an English tag with a
\* character (line feed) that no HTTP header value may hold.
Languages ==
    {<<"e", "n", "-", "U", "S">>, <<"e", "s", "-", "E", "S">>,
     <<"e", "n">>, <<"e", "n", "-", "\n">>}

\* What `await translationStream.next()` can give.
TranslationResults ==
    {[kind |-> "throw", content |-> <<>>],
     [kind |-> "CONTENT_undefined", content |-> <<>>],
     [kind |-> "CONTENT_STREAM", content |-> <<>>],
     [kind |-> "OTHER", content |-> <<>>]}
    \cup {[kind |-> "CONTENT", content |-> t] :
            t \in {<<>>, <<" ">>, <<"b">>, <<" ", "b">>}}

\* The text of one streamed translation delta.
DeltaTexts == {<<>>, <<" ">>, <<"b">>}

\* The samples of audio chunks: 1.5, -1.5, 1, -1, 0, 0.75, -0.25.
AudioPayloads ==
    {<<>>,
     <<<<3, 2>>>>,
     <<<<-3, 2>>, <<-1, 4>>>>,
     <<<<1, 1>>, <<-1, 1>>, <<0, 1>>, <<3, 4>>>>}

\* A chunk of the TTS stream: with chunk.audio.data, or without it.
Chunks ==
    {[hasAudio |-> FALSE, data |-> <<>>]}
    \cup {[hasAudio |-> TRUE, data |-> d] : d \in AudioPayloads}

\* What `await axios.post(...)` can give: an exception, a response without
\* audioContent, or audioContent (as base64 sextets).
RestResponses ==
    {[kind |-> "throw", audioContent |-> <<>>],
     [kind |-> "response", audioContent |-> <<>>],
     [kind |-> "response", audioContent |-> <<20>>],
     [kind |-> "response", audioContent |-> <<20, 38, 21, 36, 1, 2>>]}

\* What `await fetchNewsArticles(...)` can give: an exception (the News API
\* key is not configured, or the HTTP call failed), no article, or one article
\* (pageSize defaults to 1); description may be null.
FetchOutcomes ==
    {[kind |-> "throw", message |-> "News API not configured", articles |-> <<>>],
     [kind |-> "throw", message |-> "Request failed with status code 401",
      articles |-> <<>>],
     [kind |-> "ok", message |-> "", articles |-> <<>>],
     [kind |-> "ok", message |-> "",
      articles |-> <<[title |-> <<"a">>, description |-> <<>>]>>]}

\* An audio id without the index of the article.
AudioId_noIndex(t, index) == <<"article", t, 0>>

\* `article_${Date.now()}_${index}`
AudioId(t, index) == <<"article", t, index>>

\* The audioId parameters of GET /audio/:audioId requests.
RequestedIds == {AudioId(t, 0) : t \in 0..MaxClock}

\* global.audioCache before the first set(): no entry.
NoEntries == [id \in {} |-> NoBuffer]

\* No invocation of generateTTSAudio is under way.
NoneInFlight == [i \in {} |-> [pc |-> "s_wait", language |-> <<>>, ids |-> {}]]

\* translate-graph.js before run() is called: run() has no locals yet.
CliNotRun == [pc |-> "idle"]

\* MetricsModel as constructed (the counters the navigation touches).
NoMetrics ==
    [headlineListens |-> 0, skips |-> 0, currentArticleListens |-> 0,
     totalArticlesViewed |-> 0]

\* The app before NewsReaderViewModel.init().
ViewNotLoaded == [pc |-> "new"]

\* No GET /news-audio request with several articles has come in.
NoBatch == [pc |-> "idle"]

\* The REST call has not been made.
NoRestCall == [kind |-> "none", audioContent |-> <<>>]

\* No 'close' event of the request's socket has happened.
NotCancelled == [happened |-> FALSE, pc |-> "none", pulled |-> 0]

\* --------------------------------------------------------------- the state
VARIABLES
    apiKey,         \* process.env.INWORLD_API_KEY: "missing", "placeholder", "valid"
    pc,             \* where the request is
    text,           \* req.body.text, as [kind, s]
    language,       \* req.body.language
    graphInput,     \* generateTTSAudio: let graphInput
    translatedText, \* generateTTSAudio: let translatedText
    deltas,         \* the translation deltas received so far, in arrival order
    allAudioData,   \* generateTTSAudio: let allAudioData
    chunks,         \* the audio chunks received so far, in arrival order
    audioBuffer,    \* the encoder's output (const audioBuffer, line 429)
    result,         \* what generateTTSAudio returned
    genOutcome,     \* "none", "returned" or "threw"
    failure,        \* what sent generateTTSAudio to its catch (graphError)
    calls,          \* the remote calls and tiers invoked, in order, with their text
    execs,          \* per executor: how often created, how often released
    responses,      \* the status codes sent to the caller, in order
    nodeEnv,        \* process.env.NODE_ENV
    route,          \* the endpoint the request came to: "none", "tts", "news", ...
    replies,        \* the responses as the caller receives them, in order
    now,            \* what Date.now() returns
    audioCache,     \* global.audioCache: audioId -> the bytes stored
    served,         \* the requests answered before this one
    cancelled,      \* whether, and where, the caller of the request went away
    restResponse,   \* what `await axios.post(...)` gave, where it is recorded
    inflight,       \* the invocations of generateTTSAudio under way, with their ids
    cli,            \* translate-graph.js: where run() is, and its locals
    view,           \* the iOS app: NewsReaderViewModel with its services
    batch           \* one GET /news-audio request with all its articles

vars ==
    <<apiKey, pc, text, language, graphInput, translatedText, deltas,
      allAudioData, chunks, audioBuffer, result, genOutcome, failure, calls,
      execs, responses, nodeEnv, route, replies, now, audioCache, served,
      cancelled, restResponse, inflight, cli, view, batch>>

\* What the handlers of the server's one request at a time never touch.
sideVars == <<inflight, cli, view, batch>>

\* The state of the server's request handlers.
httpVars ==
    <<apiKey, pc, text, language, graphInput, translatedText, deltas,
      allAudioData, chunks, audioBuffer, result, genOutcome, failure, calls,
      execs, responses, nodeEnv, route, replies, now, audioCache, served,
      cancelled, restResponse>>

\* What the steps of generateTTSAudio never touch.
serverVars == <<nodeEnv, now, audioCache, served, cancelled>>

Init ==
    /\ apiKey \in {"missing", "placeholder", "valid"}
    /\ pc = "idle"
    /\ text = [kind |-> "missing", s |-> <<>>]
    /\ language = <<>>
    /\ graphInput = <<>>
    /\ translatedText = <<>>
    /\ deltas = <<>>
    /\ allAudioData = <<>>
    /\ chunks = <<>>
    /\ audioBuffer = NoBuffer
    /\ result = NoBuffer
    /\ genOutcome = "none"
    /\ failure = "none"
    /\ calls = <<>>
    /\ execs = [e \in {"translation", "tts"} |-> [created |-> 0, released |-> 0]]
    /\ responses = <<>>
    /\ nodeEnv \in {"development", "production"}
    /\ route = "none"
    /\ replies = <<>>
    /\ now = 0
    /\ audioCache = NoEntries
    /\ served = 0
    /\ cancelled = NotCancelled
    /\ restResponse = NoRestCall
    /\ inflight = NoneInFlight
    /\ cli = CliNotRun
    /\ view = ViewNotLoaded
    /\ batch = NoBatch

\* ------------------------------------------------------------------ helpers
\* hasApiKey = INWORLD_API_KEY && !INWORLD_API_KEY.includes('your_')
checkInworldConfig == apiKey = "valid"

\* !text || typeof text !== 'string' || text.trim().length === 0
TextInvalid_untrimmed(body) == body.kind # "string" \/ Len(body.s) = 0

TextInvalid(body) ==
    \/ body.kind # "string"
    \/ Len(body.s) = 0
    \/ Len(Trim(body.s)) = 0

\* res.set throws (ERR_INVALID_CHAR) on a header value with a control character.
HeaderSafe(value) == \A i \in 1..Len(value) : value[i] # "\n"

Created(e, name) == [e EXCEPT ![name].created = @ + 1]

\* closeExecution, stopExecutor, cleanupAllExecutions, destroy
Released(e, name) == [e EXCEPT ![name].released = @ + 1]

Call(tier, t) == [tier |-> tier, text |-> t]

\* if (!translatedText || translatedText.trim().length === 0) keep the
\* original text, else graphInput = translatedText
ChooseGraphInput_translated(original, translated) == translated

ChooseGraphInput(original, translated) ==
    IF translated = <<>> \/ Len(Trim(translated)) = 0
    THEN original ELSE translated

\* allAudioData = allAudioData.concat(Array.from(chunk.audio.data))
ConcatSamples_prepend(all, data) == data \o all

ConcatSamples(all, data) == all \o data

\* if (allAudioData.length > 0) { encode } else { throw new Error('No audio
\* content from TTS graph') }
HasSamples_always(all) == TRUE

HasSamples(all) == Len(all) > 0

\* `path` and `fs` are used at lines 433-438 and required nowhere in the file.
PathModuleLoaded == FALSE

\* res.status(...).json(...) / res.send(...): one response goes out.
SendResponse_dropped(sent, status) == sent

SendResponse(sent, status) == Append(sent, status)

\* details: process.env.NODE_ENV === 'development' ? error.message : undefined
ErrorDetails_always(env, message) == message

ErrorDetails(env, message) ==
    IF env = "development" THEN message ELSE "undefined"

\* The bytes of a Buffer, which is all that res.send(buffer) transmits.
Bytes(buf) == [head |-> buf.head, body |-> buf.body, toneBytes |-> buf.toneBytes]

\* res.status(status).json(json)
JsonResponse(status, json) ==
    [status  |-> status,
     headers |-> [contentType |-> "application/json"],
     json    |-> json,
     body    |-> Bytes(NoBuffer)]

\* res.set({...}); res.send(audioBuffer) of POST /tts; voice is 'default'.
TtsAudioResponse(buf, lang) ==
    [status  |-> 200,
     headers |-> [contentType   |-> "audio/wav",
                  contentLength |-> BufferLength(buf),
                  cacheControl  |-> "no-cache",
                  xTtsLanguage  |-> lang,
                  xTtsVoice     |-> "default"],
     json    |-> <<>>,
     body    |-> Bytes(buf)]

\* The body of the 400, 503 and 500 answers of POST /tts.
TtsErrorJson(status, body) ==
    IF status = 400
    THEN [success |-> FALSE,
          error   |-> IF TextInvalid(body)
                      THEN "Text is required and must be a non-empty string"
                      ELSE "Text is too long (max 5000 characters)"]
    ELSE IF status = 503
    THEN [success  |-> FALSE,
          error    |-> "TTS service temporarily unavailable. Please check your Inworld AI configuration.",
          fallback |-> TRUE]
    ELSE [success |-> FALSE,
          error   |-> "Internal server error during TTS generation",
          details |-> ErrorDetails(nodeEnv,
                          "Invalid character in header content [\"X-TTS-Language\"]")]

\* catch (restError) { console.warn(...) }: the REST error is swallowed.
RestErrorCaught_rethrown == FALSE

RestErrorCaught == TRUE

\* The REST fallback's request body: text: graphInput.
FallbackText_partial(input, partial) == IF partial # <<>> THEN partial ELSE input

FallbackText(input, partial) == input

\* ----------------------------------------------------------------- actions
\* app.post('/tts'), up to the call of generateTTSAudio.
PostTts ==
    /\ pc = "idle"
    /\ route' = "tts"
    /\ \E body \in Bodies, lang \in Languages :
        /\ text' = body
        /\ language' = lang
        /\ IF TextInvalid(body) \/ Len(body.s) > MaxTextChars
           THEN /\ responses' = SendResponse(responses, 400)
                /\ replies' = Append(replies, JsonResponse(400, TtsErrorJson(400, body)))
                /\ pc' = "responded"
           ELSE IF ~checkInworldConfig
           THEN /\ responses' = SendResponse(responses, 503)
                /\ replies' = Append(replies, JsonResponse(503, TtsErrorJson(503, body)))
                /\ pc' = "responded"
           ELSE /\ responses' = responses
                /\ replies' = replies
                /\ pc' = "start"
    /\ UNCHANGED <<apiKey, graphInput, translatedText, deltas, allAudioData,
                   chunks, audioBuffer, result, genOutcome, failure, calls, execs>>
    /\ UNCHANGED serverVars
    /\ UNCHANGED restResponse
    /\ UNCHANGED sideVars

\* generateTTSAudio from its entry to its first await: the credential check,
\* then the translation graph and its execute() call, or, for a language that
\* needs no translation, the TTS graph and its execute() call.
GenStart ==
    /\ pc = "start"
    /\ graphInput' = text.s
    /\ IF apiKey = "missing"
       THEN /\ result' = generateTestAudio(text.s)
            /\ genOutcome' = "returned"
            /\ calls' = Append(calls, Call("tertiary", text.s))
            /\ execs' = execs
            /\ pc' = "returned"
       ELSE IF requiresTranslation(language)
       THEN /\ execs' = Created(execs, "translation")
            /\ calls' = Append(calls, Call("translation", text.s))
            /\ pc' = "t_exec"
            /\ UNCHANGED <<result, genOutcome>>
       ELSE /\ execs' = Created(execs, "tts")
            /\ calls' = Append(calls, Call("primary", text.s))
            /\ pc' = "s_exec"
            /\ UNCHANGED <<result, genOutcome>>
    /\ UNCHANGED <<apiKey, text, language, translatedText, deltas, allAudioData,
                   chunks, audioBuffer, failure, responses>>
    /\ UNCHANGED <<serverVars, route, replies>>
    /\ UNCHANGED restResponse
    /\ UNCHANGED sideVars

\* A catch that returned whatever the failed tier had left behind.
EnterFallback_returns(why) ==
    /\ failure' = why
    /\ calls' = calls
    /\ pc' = "returned"

\* catch (graphError): the REST call is issued with graphInput.
EnterFallback(why) ==
    /\ failure' = why
    /\ calls' = Append(calls, Call("secondary", FallbackText(graphInput, translatedText)))
    /\ pc' = "rest"

\* `await translationExecutor.execute(...)` settles.
TranslationExecuted ==
    /\ pc = "t_exec"
    /\ \E ok \in BOOLEAN :
        IF ok
        THEN /\ pc' = "t_first"
             /\ UNCHANGED <<failure, calls>>
        ELSE EnterFallback("translation")
    /\ UNCHANGED <<apiKey, text, language, graphInput, translatedText, deltas,
                   allAudioData, chunks, audioBuffer, result, genOutcome, execs,
                   responses>>
    /\ UNCHANGED <<serverVars, route, replies>>
    /\ UNCHANGED restResponse
    /\ UNCHANGED sideVars

\* After the translation: its executor is released, graphInput is chosen, the
\* TTS graph is built and its execute() call is issued.
FinishTranslation(translated) ==
    /\ translatedText' = translated
    /\ graphInput' = ChooseGraphInput(text.s, translated)
    /\ execs' = Created(Released(execs, "translation"), "tts")
    /\ calls' = Append(calls, Call("primary", ChooseGraphInput(text.s, translated)))
    /\ pc' = "s_exec"
    /\ failure' = failure

\* `await translationStream.next()` settles.
TranslationResult ==
    /\ pc = "t_first"
    /\ \E r \in TranslationResults :
        CASE r.kind = "CONTENT" -> FinishTranslation(r.content)
          [] r.kind = "OTHER" -> FinishTranslation(<<>>)
          [] r.kind = "CONTENT_STREAM" ->
                /\ pc' = "t_drain"
                /\ UNCHANGED <<translatedText, graphInput, execs, calls, failure>>
          [] OTHER ->
                \* next() throws, or response.content is undefined and
                \* translatedText.substring throws
                /\ EnterFallback("translation")
                /\ UNCHANGED <<translatedText, graphInput, execs>>
    /\ UNCHANGED <<apiKey, text, language, deltas, allAudioData, chunks,
                   audioBuffer, result, genOutcome, responses>>
    /\ UNCHANGED <<serverVars, route, replies>>
    /\ UNCHANGED restResponse
    /\ UNCHANGED sideVars

\* A loop that put each delta in front of the text collected so far.
AppendDelta_prepend(t, d) == IF d # <<>> THEN d \o t ELSE t

\* if (chunk.text) translatedText += chunk.text
AppendDelta(t, d) == IF d # <<>> THEN t \o d ELSE t

\* `await streamIterator.next()` settles: a delta, done, or an exception.
TranslationDelta ==
    /\ pc = "t_drain"
    /\ \/ \E d \in DeltaTexts :
            /\ Len(deltas) < MaxDeltas
            /\ deltas' = Append(deltas, d)
            /\ translatedText' = AppendDelta(translatedText, d)
            /\ UNCHANGED <<pc, graphInput, execs, calls, failure>>
       \/ /\ FinishTranslation(translatedText)
          /\ deltas' = deltas
       \/ /\ EnterFallback("translation")
          /\ UNCHANGED <<translatedText, graphInput, execs, deltas>>
    /\ UNCHANGED <<apiKey, text, language, allAudioData, chunks, audioBuffer,
                   result, genOutcome, responses>>
    /\ UNCHANGED <<serverVars, route, replies>>
    /\ UNCHANGED restResponse
    /\ UNCHANGED sideVars

\* `await executor.execute(graphInput, ...)` settles.
SynthesisExecuted ==
    /\ pc = "s_exec"
    /\ \E ok \in BOOLEAN :
        IF ok
        THEN /\ pc' = "s_first"
             /\ UNCHANGED <<failure, calls>>
        ELSE EnterFallback("primary_throw")
    /\ UNCHANGED <<apiKey, text, language, graphInput, translatedText, deltas,
                   allAudioData, chunks, audioBuffer, result, genOutcome, execs,
                   responses>>
    /\ UNCHANGED <<serverVars, route, replies>>
    /\ UNCHANGED restResponse
    /\ UNCHANGED sideVars

\* `await outputStream.next()` settles; ttsStream = ttsResult.data.
SynthesisResult ==
    /\ pc = "s_first"
    /\ \E ok \in BOOLEAN :
        IF ok
        THEN /\ pc' = "s_drain"
             /\ UNCHANGED <<failure, calls>>
        ELSE EnterFallback("primary_throw")
    /\ UNCHANGED <<apiKey, text, language, graphInput, translatedText, deltas,
                   allAudioData, chunks, audioBuffer, result, genOutcome, execs,
                   responses>>
    /\ UNCHANGED <<serverVars, route, replies>>
    /\ UNCHANGED restResponse
    /\ UNCHANGED sideVars

\* A drain loop that started over at a chunk without sample payload.
CollectChunk_reset(all, c) ==
    IF c.hasAudio THEN ConcatSamples(all, c.data) ELSE <<>>

\* if (chunk.audio && chunk.audio.data) allAudioData = allAudioData.concat(...)
CollectChunk(all, c) ==
    IF c.hasAudio THEN ConcatSamples(all, c.data) ELSE all

\* `await ttsStream.next()` settles: a chunk, done, or an exception.  On done
\* the executor is released and the samples are encoded; saving the sample
\* file then throws, as does an empty sample list.
SynthesisChunk ==
    /\ pc = "s_drain"
    /\ \/ \E c \in Chunks :
            /\ Len(chunks) < MaxChunks
            /\ chunks' = Append(chunks, c)
            /\ allAudioData' = CollectChunk(allAudioData, c)
            /\ UNCHANGED <<pc, audioBuffer, result, genOutcome, failure, calls, execs>>
       \/ /\ execs' = Released(execs, "tts")
          /\ UNCHANGED <<chunks, allAudioData>>
          /\ IF HasSamples(allAudioData)
             THEN /\ audioBuffer' = convertAudioDataToWAV(allAudioData, ToneSampleRate)
                  /\ IF PathModuleLoaded
                     THEN /\ result' = convertAudioDataToWAV(allAudioData, ToneSampleRate)
                          /\ genOutcome' = "returned"
                          /\ pc' = "returned"
                          /\ UNCHANGED <<failure, calls>>
                     ELSE /\ EnterFallback("primary_save")
                          /\ UNCHANGED <<result, genOutcome>>
             ELSE /\ EnterFallback("primary_empty")
                  /\ UNCHANGED <<audioBuffer, result, genOutcome>>
       \/ /\ EnterFallback("primary_throw")
          /\ UNCHANGED <<chunks, allAudioData, audioBuffer, result, genOutcome, execs>>
    /\ UNCHANGED <<apiKey, text, language, graphInput, translatedText, deltas,
                   responses>>
    /\ UNCHANGED <<serverVars, route, replies>>
    /\ UNCHANGED restResponse
    /\ UNCHANGED sideVars

\* A check that took every response of the REST call for audio.
HasAudioContent_anyResponse(r) == r.kind = "response"

\* if (response.data && response.data.audioContent)
HasAudioContent(r) == r.kind = "response" /\ r.audioContent # <<>>

\* `await axios.post(...)` settles: the decoded audioContent is returned, or
\* (no audioContent, or an exception, which is caught) the tone is.  What the
\* call gave is recorded in restResponse if recorded is TRUE.
RestSettles(recorded) ==
    /\ pc = "rest"
    /\ \E r \in RestResponses :
        /\ restResponse' = IF recorded THEN r ELSE restResponse
        /\ IF HasAudioContent(r)
           THEN /\ result' = [kind |-> "rest", head |-> <<>>,
                              body |-> Base64Decode(r.audioContent), toneBytes |-> 0]
                /\ genOutcome' = "returned"
                /\ calls' = calls
           ELSE IF r.kind = "throw" /\ ~RestErrorCaught
           THEN /\ result' = NoBuffer
                /\ genOutcome' = "threw"
                /\ calls' = calls
           ELSE /\ result' = generateTestAudio(graphInput)
                /\ genOutcome' = "returned"
                /\ calls' = Append(calls, Call("tertiary", graphInput))
    /\ pc' = "returned"
    /\ UNCHANGED <<apiKey, text, language, graphInput, translatedText, deltas,
                   allAudioData, chunks, audioBuffer, failure, execs, responses>>
    /\ UNCHANGED <<serverVars, route, replies>>
    /\ UNCHANGED sideVars

\* The step as the specifications of the server take it.
RestSettled == RestSettles(FALSE)

\* The same step, with what the call gave kept for inspection.
RestRecorded == RestSettles(TRUE)

\* app.post('/tts') after `await generateTTSAudio(...)`: res.set and res.send,
\* or, when generateTTSAudio or res.set threw, the catch's 500.
Respond ==
    /\ pc = "returned"
    /\ route = "tts"
    /\ responses' = SendResponse(responses,
                        IF genOutcome = "returned" /\ HeaderSafe(language)
                        THEN 200 ELSE 500)
    /\ replies' = Append(replies,
                    IF genOutcome = "returned" /\ HeaderSafe(language)
                    THEN TtsAudioResponse(result, language)
                    ELSE JsonResponse(500, TtsErrorJson(500, text)))
    /\ pc' = "responded"
    /\ UNCHANGED <<serverVars, route>>
    /\ UNCHANGED <<apiKey, text, language, graphInput, translatedText, deltas,
                   allAudioData, chunks, audioBuffer, result, genOutcome, failure,
                   calls, execs>>
    /\ UNCHANGED restResponse
    /\ UNCHANGED sideVars

Next ==
    \/ PostTts
    \/ GenStart
    \/ TranslationExecuted
    \/ TranslationResult
    \/ TranslationDelta
    \/ SynthesisExecuted
    \/ SynthesisResult
    \/ SynthesisChunk
    \/ RestSettled
    \/ Respond

Spec == Init /\ [][Next]_vars

\* The steps of a request that has arrived.
HandlerStep ==
    \/ GenStart
    \/ TranslationExecuted
    \/ TranslationResult
    \/ TranslationDelta
    \/ SynthesisExecuted
    \/ SynthesisResult
    \/ SynthesisChunk
    \/ RestSettled
    \/ Respond

\* Every awaited remote call settles and every stream ends, and the event
\* loop then runs the continuation: an arrived request keeps taking steps.
FairSpec == Spec /\ WF_vars(HandlerStep)

\* One POST /tts request, with the outcome of its REST call recorded.
RestNext ==
    \/ PostTts
    \/ GenStart
    \/ TranslationExecuted
    \/ TranslationResult
    \/ TranslationDelta
    \/ SynthesisExecuted
    \/ SynthesisResult
    \/ SynthesisChunk
    \/ RestRecorded
    \/ Respond

RestSpec == Init /\ [][RestNext]_vars

\* ------------------------------------------------- the other endpoints
\* `${article.title}. ${article.description || ''}`
ArticleText(article) == article.title \o <<".", " ">> \o article.description

\* Map.prototype.set: the entry is added, or the entry of that key replaced.
MapSet(map, key, value) ==
    [k \in DOMAIN map \cup {key} |-> IF k = key THEN value ELSE map[k]]

\* The body of the 200 answer of GET /news-audio; audioId null is <<>>.
NewsJson(articles) == [success |-> TRUE, articles |-> articles]

\* The article as returned by the catch of its callback.
FailedArticle ==
    [audioId |-> <<>>, audioUrl |-> <<>>, error |-> "TTS generation failed"]

\* The article as returned after its audio was stored under audioId.
StoredArticle(audioId, buf, articleText) ==
    [audioId     |-> audioId,
     audioUrl    |-> <<"/audio/", audioId>>,
     audioLength |-> BufferLength(buf),
     textLength  |-> Len(articleText)]

\* app.get('/news-audio') up to `await fetchNewsArticles(...)`.
NewsAudio ==
    /\ pc = "idle"
    /\ route' = "news"
    /\ \E lang \in Languages : language' = lang
    /\ pc' = "n_fetch"
    /\ UNCHANGED <<apiKey, text, graphInput, translatedText, deltas,
                   allAudioData, chunks, audioBuffer, result, genOutcome,
                   failure, calls, execs, responses, replies>>
    /\ UNCHANGED serverVars
    /\ UNCHANGED restResponse
    /\ UNCHANGED sideVars

\* `await fetchNewsArticles(...)` settles: the 500 of the outer catch, the 404,
\* or the article's callback runs up to its first await.  For a language that
\* requires translation that callback calls translateTextWithLLM, which is
\* defined nowhere: the ReferenceError is caught per article and the 200 goes
\* out with that article marked as failed.
NewsFetched ==
    /\ pc = "n_fetch"
    /\ \E o \in FetchOutcomes :
        IF o.kind = "throw"
        THEN /\ responses' = SendResponse(responses, 500)
             /\ replies' = Append(replies, JsonResponse(500,
                    [success |-> FALSE,
                     error   |-> "Failed to fetch news and generate audio",
                     details |-> ErrorDetails(nodeEnv, o.message)]))
             /\ pc' = "responded"
             /\ text' = text
        ELSE IF o.articles = <<>>
        THEN /\ responses' = SendResponse(responses, 404)
             /\ replies' = Append(replies, JsonResponse(404,
                    [success |-> FALSE, error |-> "No news articles found",
                     articles |-> <<>>]))
             /\ pc' = "responded"
             /\ text' = text
        ELSE /\ text' = [kind |-> "string", s |-> ArticleText(o.articles[1])]
             /\ IF requiresTranslation(language)
                THEN /\ responses' = SendResponse(responses, 200)
                     /\ replies' = Append(replies,
                            JsonResponse(200, NewsJson(<<FailedArticle>>)))
                     /\ pc' = "responded"
                ELSE /\ pc' = "start"
                     /\ UNCHANGED <<responses, replies>>
    /\ UNCHANGED <<apiKey, language, graphInput, translatedText, deltas,
                   allAudioData, chunks, audioBuffer, result, genOutcome,
                   failure, calls, execs, route>>
    /\ UNCHANGED serverVars
    /\ UNCHANGED restResponse
    /\ UNCHANGED sideVars

\* The article's callback after `await generateTTSAudio(...)`: the audio is
\* stored under article_<Date.now()>_<index>, Promise.all resolves and the 200
\* goes out.
NewsArticleStored ==
    /\ pc = "returned"
    /\ route = "news"
    /\ IF genOutcome = "returned"
       THEN /\ audioCache' = MapSet(audioCache, AudioId(now, 0), Bytes(result))
            /\ replies' = Append(replies, JsonResponse(200, NewsJson(
                    <<StoredArticle(AudioId(now, 0), result, text.s)>>)))
       ELSE /\ audioCache' = audioCache
            /\ replies' = Append(replies,
                    JsonResponse(200, NewsJson(<<FailedArticle>>)))
    /\ responses' = SendResponse(responses, 200)
    /\ pc' = "responded"
    /\ UNCHANGED <<apiKey, text, language, graphInput, translatedText, deltas,
                   allAudioData, chunks, audioBuffer, result, genOutcome,
                   failure, calls, execs, route, nodeEnv, now, served, cancelled>>
    /\ UNCHANGED restResponse
    /\ UNCHANGED sideVars

\* app.get('/audio/:audioId'): the cached bytes, or 404.
GetAudio ==
    /\ pc = "idle"
    /\ route' = "audio"
    /\ \E audioId \in RequestedIds :
        IF audioId \in DOMAIN audioCache
        THEN /\ responses' = SendResponse(responses, 200)
             /\ replies' = Append(replies,
                    [status  |-> 200,
                     headers |-> [contentType   |-> "audio/wav",
                                  contentLength |-> BufferLength(audioCache[audioId]),
                                  cacheControl  |-> "public, max-age=3600",
                                  acceptRanges  |-> "bytes"],
                     json    |-> <<>>,
                     body    |-> audioCache[audioId]])
        ELSE /\ responses' = SendResponse(responses, 404)
             /\ replies' = Append(replies, JsonResponse(404,
                    [success |-> FALSE, error |-> "Audio not found or expired"]))
    /\ pc' = "responded"
    /\ UNCHANGED <<apiKey, text, language, graphInput, translatedText, deltas,
                   allAudioData, chunks, audioBuffer, result, genOutcome,
                   failure, calls, execs>>
    /\ UNCHANGED serverVars
    /\ UNCHANGED restResponse
    /\ UNCHANGED sideVars

\* app.get('/health')
Health ==
    /\ pc = "idle"
    /\ route' = "health"
    /\ responses' = SendResponse(responses, 200)
    /\ replies' = Append(replies, JsonResponse(200,
            [status      |-> "OK",
             environment |-> nodeEnv,
             services    |-> [inworld |-> IF checkInworldConfig
                                          THEN "configured"
                                          ELSE "not_configured"]]))
    /\ pc' = "responded"
    /\ UNCHANGED <<apiKey, text, language, graphInput, translatedText, deltas,
                   allAudioData, chunks, audioBuffer, result, genOutcome,
                   failure, calls, execs>>
    /\ UNCHANGED serverVars
    /\ UNCHANGED restResponse
    /\ UNCHANGED sideVars

\* One request to any endpoint.
ApiNext ==
    \/ Next
    \/ NewsAudio
    \/ NewsFetched
    \/ NewsArticleStored
    \/ GetAudio
    \/ Health

ApiSpec == Init /\ [][ApiNext]_vars

\* The request was answered; the server takes the next one.  The locals of the
\* handler are fresh for every request; the process environment, the clock and
\* global.audioCache live on.
NextRequest ==
    /\ pc = "responded"
    /\ served + 1 < MaxRequests
    /\ served' = served + 1
    /\ pc' = "idle"
    /\ route' = "none"
    /\ text' = [kind |-> "missing", s |-> <<>>]
    /\ language' = <<>>
    /\ graphInput' = <<>>
    /\ translatedText' = <<>>
    /\ deltas' = <<>>
    /\ allAudioData' = <<>>
    /\ chunks' = <<>>
    /\ audioBuffer' = NoBuffer
    /\ result' = NoBuffer
    /\ genOutcome' = "none"
    /\ failure' = "none"
    /\ calls' = <<>>
    /\ execs' = [e \in {"translation", "tts"} |-> [created |-> 0, released |-> 0]]
    /\ responses' = <<>>
    /\ replies' = <<>>
    /\ restResponse' = NoRestCall
    /\ UNCHANGED <<apiKey, nodeEnv, now, audioCache, cancelled>>
    /\ UNCHANGED sideVars

\* A millisecond passes.
Tick ==
    /\ now < MaxClock
    /\ now' = now + 1
    /\ UNCHANGED <<apiKey, pc, text, language, graphInput, translatedText,
                   deltas, allAudioData, chunks, audioBuffer, result, genOutcome,
                   failure, calls, execs, responses, nodeEnv, route, replies,
                   audioCache, served, cancelled>>
    /\ UNCHANGED restResponse
    /\ UNCHANGED sideVars

\* GET /news-audio, GET /audio/:audioId and GET /health requests, one after
\* another, over the same cache.  generateTTSAudio is reached from /news-audio
\* only with a language that requires no translation, so its translation
\* steps are not part of this specification.
CacheNext ==
    \/ NewsAudio
    \/ NewsFetched
    \/ GenStart
    \/ SynthesisExecuted
    \/ SynthesisResult
    \/ SynthesisChunk
    \/ RestSettled
    \/ NewsArticleStored
    \/ GetAudio
    \/ Health
    \/ NextRequest
    \/ Tick

CacheSpec == Init /\ [][CacheNext]_vars

\* The caller of POST /tts goes away (its socket closes) while the handler
\* awaits the next item of the translation stream or of the audio stream.  No
\* 'close' or 'aborted' listener is registered anywhere in server.js, so
\* nothing of the handler's state changes; what is recorded is where it
\* happened and how many stream items had arrived by then.
Disconnect ==
    /\ route = "tts"
    /\ pc \in {"t_drain", "s_drain"}
    /\ ~cancelled.happened
    /\ cancelled' = [happened |-> TRUE, pc |-> pc,
                     pulled |-> Len(deltas) + Len(chunks)]
    /\ UNCHANGED <<apiKey, pc, text, language, graphInput, translatedText,
                   deltas, allAudioData, chunks, audioBuffer, result, genOutcome,
                   failure, calls, execs, responses, nodeEnv, route, replies,
                   now, audioCache, served>>
    /\ UNCHANGED restResponse
    /\ UNCHANGED sideVars

CancelNext ==
    \/ Next
    \/ Disconnect

\* One POST /tts request whose caller may go away during a drain.
CancelSpec == Init /\ [][CancelNext]_vars

\* -------------------------------------------- invocations under way at once
\* Two requests, or the articles of one GET /news-audio under Promise.all,
\* have their invocations of generateTTSAudio under way at the same time: each
\* runs from one await to the next without interruption, and the others run
\* while it waits.  Of each invocation only the identifiers it makes are kept.

\* The languages of the invocations under way.
InFlightLanguages == {<<"e", "n", "-", "U", "S">>, <<"e", "s", "-", "E", "S">>}

\* The identifiers of the translation graph, all `<name>_${Date.now()}`.
TranslationIds(t) ==
    {<<name, t>> : name \in {"translation_llm", "translation_input",
                             "translation_output", "translation_graph",
                             "translation"}}

\* The identifiers of the TTS graph, all `<name>_${Date.now()}`.
TtsIds(t) ==
    {<<name, t>> : name \in {"tts_component", "tts_node", "input", "output",
                             "tts_graph", "execution"}}

\* generateTTSAudio is called and runs to its first await: the execute() of
\* the translation graph, or, without translation, that of the TTS graph.
Invoke(i) ==
    /\ i \notin DOMAIN inflight
    /\ apiKey # "missing"
    /\ \E lang \in InFlightLanguages :
        inflight' = MapSet(inflight, i,
            IF requiresTranslation(lang)
            THEN [pc |-> "t_wait", language |-> lang, ids |-> TranslationIds(now)]
            ELSE [pc |-> "s_wait", language |-> lang, ids |-> TtsIds(now)])
    /\ UNCHANGED <<httpVars, cli, view, batch>>

\* The translation of invocation i ends: the TTS graph is built and executed,
\* or, after an exception, the invocation goes on to its REST call.
Translated(i) ==
    /\ i \in DOMAIN inflight
    /\ inflight[i].pc = "t_wait"
    /\ \E ok \in BOOLEAN :
        inflight' = [inflight EXCEPT ![i] =
            IF ok
            THEN [pc |-> "s_wait", language |-> @.language,
                  ids |-> @.ids \cup TtsIds(now)]
            ELSE [pc |-> "r_wait", language |-> @.language, ids |-> @.ids]]
    /\ UNCHANGED <<httpVars, cli, view, batch>>

\* The synthesis of invocation i ends, and with it (after the REST call, which
\* makes no identifier) the invocation.
Synthesized(i) ==
    /\ i \in DOMAIN inflight
    /\ inflight[i].pc \in {"s_wait", "r_wait"}
    /\ inflight' = [j \in DOMAIN inflight \ {i} |-> inflight[j]]
    /\ UNCHANGED <<httpVars, cli, view, batch>>

InFlightNext ==
    \/ \E i \in 1..MaxInFlight : Invoke(i)
    \/ \E i \in 1..MaxInFlight : Translated(i)
    \/ \E i \in 1..MaxInFlight : Synthesized(i)
    \/ Tick

\* Up to MaxInFlight invocations of generateTTSAudio at the same time.
InFlightSpec == Init /\ [][InFlightNext]_vars

\* ------------------------------------------------------ translate-graph.js
\* The command line program: run() from parseArgs() to the saved file, one
\* action per stretch between two awaits.  run() has no try: an exception of
\* an awaited call ends it.

\* argv._.join(' ')
CliTexts == {<<>>, <<"a">>, <<"a", " ", "b">>}

\* What the first next() of the translation stream can give.
CliTranslationResults ==
    {r \in TranslationResults : r.kind # "CONTENT_undefined"}

\* run() up to `await translationExecutor.execute(...)`: parseArgs() throws
\* without a text or without INWORLD_API_KEY; translate is always true.
CliRun ==
    /\ cli.pc = "idle"
    /\ \E t \in CliTexts :
        cli' = [pc |-> IF t = <<>> \/ apiKey = "missing" THEN "failed" ELSE "t_exec",
                text |-> t, translatedText |-> <<>>, graphInput |-> t,
                executed |-> <<>>, allAudioData |-> <<>>, saved |-> FALSE]
    /\ UNCHANGED <<httpVars, inflight, view, batch>>

\* `await translationExecutor.execute(translationPrompt, v4())` settles.
CliTranslationExecuted ==
    /\ cli.pc = "t_exec"
    /\ \E ok \in BOOLEAN :
        cli' = [cli EXCEPT !.pc = IF ok THEN "t_first" ELSE "failed"]
    /\ UNCHANGED <<httpVars, inflight, view, batch>>

\* After the translation: cleanup(), the TTS graph is built,
\* `graphInput = translatedText`, and executor.execute(graphInput, v4()) is
\* called.
CliFinishTranslation(c, translated) ==
    [c EXCEPT !.translatedText = translated,
              !.graphInput = translated,
              !.executed = <<translated>>,
              !.pc = "s_exec"]

\* `await translationStream.next()` settles.
CliTranslationResult ==
    /\ cli.pc = "t_first"
    /\ \E r \in CliTranslationResults :
        cli' = CASE r.kind = "CONTENT" -> CliFinishTranslation(cli, r.content)
                 [] r.kind = "OTHER" -> CliFinishTranslation(cli, <<>>)
                 [] r.kind = "CONTENT_STREAM" -> [cli EXCEPT !.pc = "t_drain"]
                 [] OTHER -> [cli EXCEPT !.pc = "failed"]
    /\ UNCHANGED <<httpVars, inflight, view, batch>>

\* `await streamIterator.next()` settles: a delta, done, or an exception.
\* No further delta is taken once MaxDeltas characters are collected.
CliTranslationDelta ==
    /\ cli.pc = "t_drain"
    /\ \/ \E d \in DeltaTexts :
            /\ Len(cli.translatedText) < MaxDeltas
            /\ cli' = [cli EXCEPT !.translatedText = IF d # <<>> THEN @ \o d ELSE @]
       \/ cli' = CliFinishTranslation(cli, cli.translatedText)
       \/ cli' = [cli EXCEPT !.pc = "failed"]
    /\ UNCHANGED <<httpVars, inflight, view, batch>>

\* `await executor.execute(graphInput, v4())` and `await outputStream.next()`
\* settle.
CliSynthesisExecuted ==
    /\ cli.pc = "s_exec"
    /\ \E ok \in BOOLEAN :
        cli' = [cli EXCEPT !.pc = IF ok THEN "s_drain" ELSE "failed"]
    /\ UNCHANGED <<httpVars, inflight, view, batch>>

\* `await ttsStream.next()` settles: a chunk (chunk.audio.data is read without
\* a check), done (the samples are encoded and the file is written), or an
\* exception.  No further chunk is taken once MaxChunks samples are collected.
CliSynthesisChunk ==
    /\ cli.pc = "s_drain"
    /\ \/ \E c \in Chunks :
            /\ Len(cli.allAudioData) < MaxChunks
            /\ cli' = IF c.hasAudio
                      THEN [cli EXCEPT !.allAudioData = @ \o c.data]
                      ELSE [cli EXCEPT !.pc = "failed"]
       \/ cli' = [cli EXCEPT !.pc = "done", !.saved = TRUE]
       \/ cli' = [cli EXCEPT !.pc = "failed"]
    /\ UNCHANGED <<httpVars, inflight, view, batch>>

CliNext ==
    \/ CliRun
    \/ CliTranslationExecuted
    \/ CliTranslationResult
    \/ CliTranslationDelta
    \/ CliSynthesisExecuted
    \/ CliSynthesisChunk

\* One run of the command line program.
CliSpec == Init /\ [][CliNext]_vars

\* ------------------------------------------- the articles of one request
\* GET /news-audio with pageSize articles: articles.map starts every callback,
\* each runs to its `await generateTTSAudio(...)`, and the callbacks go on in
\* any order as their audio arrives.  generateTTSAudio is taken by what it
\* returns (GeneratedAudio, which GeneratedAudioCovers checks against its
\* steps); the cache and the clock are those of the server.

\* The languages of the request.
BatchLanguages == {<<"e", "n", "-", "U", "S">>, <<"e", "s", "-", "E", "S">>}

\* The articles the news API gives.
ArticleKinds ==
    {[title |-> <<"a">>, description |-> <<>>],
     [title |-> <<"a">>, description |-> <<"b">>]}

\* What `await fetchNewsArticles(...)` can give for pageSize up to MaxArticles.
BatchFetchOutcomes ==
    {o \in FetchOutcomes : o.articles = <<>>}
    \cup {[kind |-> "ok", message |-> "", articles |-> as] :
            as \in UNION {[1..n -> ArticleKinds] : n \in 1..MaxArticles}}

\* What generateTTSAudio returns for a text that needs no translation: the
\* decoded audioContent of the REST call, or the tone for the text.
GeneratedAudio(articleText) ==
    {generateTestAudio(articleText)}
    \cup {[kind |-> "rest", head |-> <<>>, body |-> Base64Decode(r.audioContent),
           toneBytes |-> 0] : r \in {x \in RestResponses : HasAudioContent(x)}}

\* The callback of an article at its `await generateTTSAudio(...)`.
AwaitingAudio == [pc |-> "gen", audio |-> NoBuffer, entry |-> FailedArticle]

\* The callback of an article ended by its catch.
ArticleFailed == [pc |-> "failed", audio |-> NoBuffer, entry |-> FailedArticle]

\* app.get('/news-audio') up to `await fetchNewsArticles(...)`.
BatchRequest ==
    /\ batch.pc = "idle"
    /\ \E lang \in BatchLanguages :
        batch' = [pc |-> "fetch", language |-> lang, articles |-> <<>>,
                  tasks |-> <<>>, replies |-> <<>>]
    /\ UNCHANGED <<httpVars, inflight, cli, view>>

\* `await fetchNewsArticles(...)` settles: the 500 of the outer catch, the 404,
\* or articles.map: every callback runs to its first await.  For a language
\* that requires translation that is translateTextWithLLM, which is not
\* defined: the callback's catch returns the article without audio.
BatchFetched ==
    /\ batch.pc = "fetch"
    /\ \E o \in BatchFetchOutcomes :
        batch' =
            IF o.kind = "throw"
            THEN [batch EXCEPT !.pc = "responded",
                    !.replies = Append(@, JsonResponse(500,
                        [success |-> FALSE,
                         error   |-> "Failed to fetch news and generate audio",
                         details |-> ErrorDetails(nodeEnv, o.message)]))]
            ELSE IF o.articles = <<>>
            THEN [batch EXCEPT !.pc = "responded",
                    !.replies = Append(@, JsonResponse(404,
                        [success |-> FALSE, error |-> "No news articles found",
                         articles |-> <<>>]))]
            ELSE [batch EXCEPT !.pc = "map", !.articles = o.articles,
                    !.tasks = [i \in 1..Len(o.articles) |->
                                IF requiresTranslation(batch.language)
                                THEN ArticleFailed ELSE AwaitingAudio]]
    /\ UNCHANGED <<httpVars, inflight, cli, view>>

\* `await generateTTSAudio(...)` of article i settles: the audio is stored
\* under article_<Date.now()>_<index> and the article is returned with its id.
ArticleGenerated(i) ==
    /\ batch.pc = "map"
    /\ i \in 1..Len(batch.tasks)
    /\ batch.tasks[i].pc = "gen"
    /\ \E buf \in GeneratedAudio(ArticleText(batch.articles[i])) :
        /\ audioCache' = MapSet(audioCache, AudioId(now, i - 1), Bytes(buf))
        /\ batch' = [batch EXCEPT !.tasks[i] =
                [pc |-> "stored", audio |-> buf,
                 entry |-> StoredArticle(AudioId(now, i - 1), buf,
                                         ArticleText(batch.articles[i]))]]
    /\ UNCHANGED <<apiKey, pc, text, language, graphInput, translatedText,
                   deltas, allAudioData, chunks, audioBuffer, result, genOutcome,
                   failure, calls, execs, responses, nodeEnv, route, replies,
                   now, served, cancelled, restResponse>>
    /\ UNCHANGED <<inflight, cli, view>>

\* Promise.all resolves: res.json with the processed articles, in the order
\* of the articles.
BatchResponded ==
    /\ batch.pc = "map"
    /\ \A i \in 1..Len(batch.tasks) : batch.tasks[i].pc # "gen"
    /\ batch' = [batch EXCEPT !.pc = "responded",
            !.replies = Append(@, JsonResponse(200, NewsJson(
                [i \in 1..Len(batch.tasks) |-> batch.tasks[i].entry])))]
    /\ UNCHANGED <<httpVars, inflight, cli, view>>

BatchNext ==
    \/ BatchRequest
    \/ BatchFetched
    \/ \E i \in 1..MaxArticles : ArticleGenerated(i)
    \/ BatchResponded
    \/ Tick

\* One GET /news-audio request with up to MaxArticles articles.
BatchSpec == Init /\ [][BatchNext]_vars

\* ------------------------------------------------------------- the iOS app
\* NewsReaderViewModel with its NewsService and MetricsModel.  The article
\* list is kept by its count.  refreshNews, searchNews and debugFetchNews are
\* async: the user's taps (nextArticle, previousArticle) run while they await.
\* view.ops counts the operations the user has started.

\* What a request to the news API gives: an error, or a list of n articles.
NewsResponses ==
    {[ok |-> FALSE, n |-> 0]} \cup {[ok |-> TRUE, n |-> n] : n \in 0..MaxFetched}

\* hasNextArticle and hasPreviousArticle
hasNextArticle(v) == v.currentArticleIndex < v.articles - 1

hasPreviousArticle(v) == v.currentArticleIndex > 0

\* MetricsModel.trackSkip, trackNewArticle and trackHeadlineListen
trackSkip(mt) == [mt EXCEPT !.skips = @ + 1, !.currentArticleListens = 0]

trackNewArticle(mt) ==
    [mt EXCEPT !.totalArticlesViewed = @ + 1, !.currentArticleListens = 0]

trackHeadlineListen(mt) ==
    [mt EXCEPT !.headlineListens = @ + 1, !.currentArticleListens = @ + 1]

\* A NewsService whose request has settled with r: fetchTopHeadlines,
\* searchNews and forceTestFetch set articles on success, errorMessage on
\* failure.
Fetched(v, r) ==
    IF r.ok THEN [v EXCEPT !.articles = r.n]
    ELSE [v EXCEPT !.errorMessage = TRUE]

\* init(): no articles, index 0, metrics as constructed; the Task of
\* loadInitialData() starts, up to the request of fetchTopHeadlines.
ViewInit ==
    /\ view.pc = "new"
    /\ \E c \in BOOLEAN :
        view' = [pc |-> "l_fetch", configured |-> c, articles |-> 0,
                 errorMessage |-> FALSE, currentArticleIndex |-> 0,
                 metrics |-> NoMetrics, plays |-> 0, ops |-> 0]
    /\ UNCHANGED <<httpVars, inflight, cli, batch>>

\* loadInitialData() after fetchTopHeadlines(): the sample data when there
\* are no articles.
LoadedInitialData ==
    /\ view.pc = "l_fetch"
    /\ \E r \in NewsResponses :
        LET v == Fetched(view, r)
        IN  view' = [v EXCEPT !.pc = "idle",
                              !.articles = IF v.articles = 0 THEN SampleArticles
                                           ELSE v.articles]
    /\ UNCHANGED <<httpVars, inflight, cli, batch>>

\* nextArticle(): nothing without a next article; else a skip, the index
\* moves on, and the Task of playCurrentArticle() starts.
nextArticle ==
    /\ view.pc # "new"
    /\ view.ops < MaxOps
    /\ view' = IF hasNextArticle(view)
               THEN [view EXCEPT !.ops = @ + 1,
                                 !.metrics = trackNewArticle(trackSkip(@)),
                                 !.currentArticleIndex = @ + 1,
                                 !.plays = @ + 1]
               ELSE [view EXCEPT !.ops = @ + 1]
    /\ UNCHANGED <<httpVars, inflight, cli, batch>>

\* previousArticle()
previousArticle ==
    /\ view.pc # "new"
    /\ view.ops < MaxOps
    /\ view' = IF hasPreviousArticle(view)
               THEN [view EXCEPT !.ops = @ + 1,
                                 !.metrics = trackNewArticle(@),
                                 !.currentArticleIndex = @ - 1,
                                 !.plays = @ + 1]
               ELSE [view EXCEPT !.ops = @ + 1]
    /\ UNCHANGED <<httpVars, inflight, cli, batch>>

\* playCurrentArticle() after generateAndPlaySpeech(): the listen is tracked.
Played ==
    /\ view.pc # "new"
    /\ view.plays > 0
    /\ view' = [view EXCEPT !.plays = @ - 1,
                            !.metrics = trackHeadlineListen(@)]
    /\ UNCHANGED <<httpVars, inflight, cli, batch>>

\* refreshNews() at its end: the index goes back to 0.
ResetIndex(v) ==
    [v EXCEPT !.pc = "idle",
              !.currentArticleIndex = 0,
              !.metrics = IF v.articles # 0 THEN trackNewArticle(@) ELSE @]

\* refreshNews() up to its first await: the request of fetchTopHeadlines
\* (errorMessage = nil), or, with no API key, the sample data and the end.
refreshNews ==
    /\ view.pc = "idle"
    /\ view.ops < MaxOps
    /\ view' = IF view.configured
               THEN [view EXCEPT !.ops = @ + 1, !.pc = "r_fetch",
                                 !.errorMessage = FALSE]
               ELSE ResetIndex([view EXCEPT !.ops = @ + 1,
                                            !.articles = SampleArticles])
    /\ UNCHANGED <<httpVars, inflight, cli, batch>>

\* fetchTopHeadlines() of refreshNews() settles, in NewsService.
RefreshFetched ==
    /\ view.pc = "r_fetch"
    /\ \E r \in NewsResponses :
        view' = [Fetched(view, r) EXCEPT !.pc = "r_back"]
    /\ UNCHANGED <<httpVars, inflight, cli, batch>>

\* refreshNews() after `await newsService.fetchTopHeadlines()`.
Refreshed ==
    /\ view.pc = "r_back"
    /\ view' = ResetIndex(
            IF view.articles = 0 /\ view.errorMessage
            THEN [view EXCEPT !.articles = SampleArticles]
            ELSE view)
    /\ UNCHANGED <<httpVars, inflight, cli, batch>>

\* searchNews(query:) up to the request of NewsService.searchNews
\* (errorMessage = nil); with no API key it returns at once.
searchNews ==
    /\ view.pc = "idle"
    /\ view.ops < MaxOps
    /\ view' = IF view.configured
               THEN [view EXCEPT !.ops = @ + 1, !.pc = "s_fetch",
                                 !.errorMessage = FALSE]
               ELSE [view EXCEPT !.ops = @ + 1]
    /\ UNCHANGED <<httpVars, inflight, cli, batch>>

\* NewsService.searchNews settles.
SearchFetched ==
    /\ view.pc = "s_fetch"
    /\ \E r \in NewsResponses :
        view' = [Fetched(view, r) EXCEPT !.pc = "s_back"]
    /\ UNCHANGED <<httpVars, inflight, cli, batch>>

\* searchNews(query:) after `await newsService.searchNews(query:)`: a failed
\* search with no articles keeps everything as it is.
Searched ==
    /\ view.pc = "s_back"
    /\ view' = IF view.articles = 0 /\ view.errorMessage
               THEN [view EXCEPT !.pc = "idle"]
               ELSE ResetIndex(view)
    /\ UNCHANGED <<httpVars, inflight, cli, batch>>

\* debugFetchNews() up to the request of forceTestFetch(): the articles are
\* cleared.
debugFetchNews ==
    /\ view.pc = "idle"
    /\ view.ops < MaxOps
    /\ view' = [view EXCEPT !.ops = @ + 1, !.pc = "d_fetch", !.articles = 0,
                            !.errorMessage = FALSE]
    /\ UNCHANGED <<httpVars, inflight, cli, batch>>

\* forceTestFetch() settles, and debugFetchNews() ends: the index stays.
forceTestFetch ==
    /\ view.pc = "d_fetch"
    /\ \E r \in NewsResponses :
        view' = [Fetched(view, r) EXCEPT !.pc = "idle"]
    /\ UNCHANGED <<httpVars, inflight, cli, batch>>

ViewNext ==
    \/ ViewInit
    \/ LoadedInitialData
    \/ nextArticle
    \/ previousArticle
    \/ Played
    \/ refreshNews
    \/ RefreshFetched
    \/ Refreshed
    \/ searchNews
    \/ SearchFetched
    \/ Searched
    \/ debugFetchNews
    \/ forceTestFetch

\* The app, from its start, under the operations of its user.
ViewSpec == Init /\ [][ViewNext]_vars

\* ------------------------------------------------------- claim vocabulary
SynthesisTiers == {"primary", "secondary", "tertiary"}

\* The synthesis tiers invoked so far, in order of invocation.
RECURSIVE TiersOf(_)
TiersOf(cs) ==
    IF cs = <<>> THEN <<>>
    ELSE IF Head(cs).tier \in SynthesisTiers
         THEN <<Head(cs).tier>> \o TiersOf(Tail(cs))
         ELSE TiersOf(Tail(cs))

CallsTo(tier) == {i \in 1..Len(calls) : calls[i].tier = tier}

GenReturned == pc \in {"returned", "responded"} /\ calls # <<>>

\* The samples of the chunks received, chunk after chunk.
RECURSIVE SamplesInArrivalOrder(_)
SamplesInArrivalOrder(cs) ==
    IF cs = <<>> THEN <<>>
    ELSE SamplesInArrivalOrder(SubSeq(cs, 1, Len(cs) - 1)) \o cs[Len(cs)].data

RECURSIVE SampleCount(_)
SampleCount(cs) ==
    IF cs = <<>> THEN 0 ELSE Len(Head(cs).data) + SampleCount(Tail(cs))

IsBlankText(t) == \A i \in 1..Len(t) : t[i] \in Whitespace

InEnglishFamily(lang) ==
    Len(lang) >= 3 /\ lang[1] = "e" /\ lang[2] = "n" /\ lang[3] = "-"

\* ------------------------------------------------------------------ claims
\* C1: every POST /tts request gets exactly one response (200 with audio, or
\* 400, 503 or 500): never two at any time, and, given that every remote call
\* settles and every stream ends, eventually one.
C1_ExactlyOneResponse ==
    /\ [](Len(responses) <= 1)
    /\ [](pc = "responded" =>
            Len(responses) = 1 /\ responses[1] \in {200, 400, 503, 500})
    /\ ((pc # "idle") ~> (pc = "responded" /\ Len(responses) = 1))

C1_Witness ==
    /\ pc = "responded"
    /\ responses = <<200>>
    /\ failure = "translation"
    /\ result.kind = "tone"

\* C2: the tiers of one generateTTSAudio invocation run in the strict order
\* primary, secondary, tertiary: the tiers invoked so far are always a prefix
\* of that list, so a tier runs only after the previous one ran (and failed),
\* and none runs twice.
C2_StrictTierOrder ==
    \E n \in 0..3 :
        TiersOf(calls) = SubSeq(<<"primary", "secondary", "tertiary">>, 1, n)

\* C3: once generateTTSAudio is entered it never throws and returns a Buffer,
\* whatever fails on the way; a 500 of POST /tts never comes from synthesis
\* (only from a header value res.set refuses).
C3_SynthesisNeverThrows ==
    /\ genOutcome # "threw"
    /\ GenReturned => genOutcome = "returned" /\ result.kind \in {"wav", "rest", "tone"}
    /\ (pc = "responded" /\ calls # <<>>) =>
            (responses = <<200>> \/ (responses = <<500>> /\ ~HeaderSafe(language)))

C3_Witness ==
    /\ pc = "responded"
    /\ responses = <<200>>
    /\ failure = "primary_throw"
    /\ execs["translation"].released = 1
    /\ result.kind = "tone"

\* C4: when the translation call or stream throws, generateTTSAudio still
\* returns audio, and every synthesis tier that runs gets the original text,
\* never the translation accumulated so far.
C4_TranslationFailureKeepsOriginal ==
    failure = "translation" =>
        /\ graphInput = text.s
        /\ \A i \in 1..Len(calls) :
                calls[i].tier \in SynthesisTiers => calls[i].text = text.s
        /\ GenReturned => genOutcome = "returned" /\ result.kind \in {"rest", "tone"}

C4_Witness ==
    /\ failure = "translation"
    /\ translatedText = <<"b">>
    /\ pc = "responded"
    /\ result.kind = "tone"

\* C5: when the translation step ends normally with empty or whitespace-only
\* text, the original text is synthesized (the primary tier is invoked with
\* it, as is every later tier) and the blank result is not a failure.
C5_BlankTranslationUsesOriginal ==
    (execs["translation"].released > 0 /\ IsBlankText(translatedText)) =>
        /\ graphInput = text.s
        /\ CallsTo("primary") # {}
        /\ \A i \in 1..Len(calls) :
                calls[i].tier \in SynthesisTiers => calls[i].text = text.s
        /\ failure # "translation"

C5_Witness ==
    /\ execs["translation"].released > 0
    /\ translatedText = <<" ">>
    /\ deltas = <<<<>>, <<" ">>>>
    /\ pc = "responded"

\* C6: for a language tag that starts with 'en-' no translation executor is
\* created and no translation call is issued, on any path of the request.
C6_EnglishNeverTranslated ==
    InEnglishFamily(language) =>
        /\ execs["translation"].created = 0
        /\ CallsTo("translation") = {}
        /\ deltas = <<>>

C6_Witness ==
    /\ language = <<"e", "n", "-", "U", "S">>
    /\ pc = "responded"
    /\ result.kind = "tone"
    /\ failure = "primary_empty"

\* C7: when generateTTSAudio returns, every executor it created has had its
\* release sequence run exactly once.
C7_EveryExecutorReleased ==
    GenReturned =>
        \A e \in {"translation", "tts"} : execs[e].released = execs[e].created

\* C8: the samples handed to the encoder are the chunks' samples in arrival
\* order, none dropped, duplicated or reordered, and as many as the chunks
\* hold together.
C8_SamplesInArrivalOrder ==
    /\ allAudioData = SamplesInArrivalOrder(chunks)
    /\ Len(allAudioData) = SampleCount(chunks)
    /\ audioBuffer.kind = "wav" =>
            /\ Len(audioBuffer.body) = 2 * SampleCount(chunks)
            /\ audioBuffer = convertAudioDataToWAV(SamplesInArrivalOrder(chunks),
                                                   ToneSampleRate)

C8_Witness ==
    /\ audioBuffer.kind = "wav"
    /\ Len(chunks) = 2
    /\ chunks[1].data = <<<<-3, 2>>, <<-1, 4>>>>
    /\ chunks[2].data = <<<<3, 2>>>>

\* The sample rates the encoder is tried at.
SampleRates == {8000, 22050, 44100, 48000}

WavHeaderMatches(w, payloadBytes, rate) ==
    /\ Len(w.head) = 44
    /\ BufferLength(w) = 44 + payloadBytes
    /\ Len(w.body) + w.toneBytes = payloadBytes
    /\ readUInt32LE(w.head, 4) = 36 + payloadBytes
    /\ readUInt16LE(w.head, 22) = 1
    /\ readUInt32LE(w.head, 24) = rate
    /\ readUInt32LE(w.head, 28) = 2 * rate
    /\ readUInt16LE(w.head, 32) = 2
    /\ readUInt16LE(w.head, 34) = 16
    /\ readUInt32LE(w.head, 40) = payloadBytes

\* C9: the container of N samples at rate R is 44 + 2N bytes long and its
\* header declares data size 2N, RIFF size 36 + 2N, byte rate 2R, block align
\* 2, one channel and 16 bits; the tone's header declares its own payload.
C9_HeaderMatchesPayload ==
    /\ \A R \in SampleRates :
            WavHeaderMatches(convertAudioDataToWAV(allAudioData, R),
                             2 * Len(allAudioData), R)
    /\ audioBuffer.kind = "wav" =>
            WavHeaderMatches(audioBuffer, 2 * Len(allAudioData), ToneSampleRate)
    /\ result.kind = "tone" =>
            /\ WavHeaderMatches(result, result.toneBytes, ToneSampleRate)
            /\ result.toneBytes = 2 * ToneNumSamples(graphInput)

C9_Witness ==
    /\ audioBuffer.kind = "wav"
    /\ Len(allAudioData) = 5
    /\ result.kind = "tone"
    /\ Len(graphInput) = 2

\* floor(clamp(s, -1, 1) * 32767) for a rational sample s = <<n, d>>.
ExpectedWord(s) ==
    IF s[1] >= s[2] THEN 32767
    ELSE IF s[1] <= -s[2] THEN -32767
    ELSE (s[1] * 32767) \div s[2]

\* C10: every 16-bit word of the encoder's payload is floor(clamp(s) * 32767)
\* of its sample s and lies in [-32767, 32767], also for s > 1 and s < -1.
C10_QuantizationClamps ==
    audioBuffer.kind = "wav" =>
        \A i \in 1..Len(allAudioData) :
            LET word == readInt16LE(audioBuffer.body, 2 * (i - 1))
            IN  /\ word = ExpectedWord(allAudioData[i])
                /\ word >= -32767
                /\ word <= 32767

C10_Witness ==
    /\ audioBuffer.kind = "wav"
    /\ \E i \in 1..Len(allAudioData) : allAudioData[i] = <<3, 2>>
    /\ \E i \in 1..Len(allAudioData) : allAudioData[i] = <<-3, 2>>
\* C11: the tone that generateTestAudio returns after the primary and the
\* secondary tier failed holds N > 0 samples for a text of L >= 1 characters,
\* N = floor(22050 * min(0.1 * L, 3)): N / 22050 s is within one sample period
\* of min(0.1 * L, 3) s, and N is 66150 (3 s) for every L >= 30.
C11_ToneDuration ==
    (result.kind = "tone" /\ CallsTo("secondary") # {} /\ Len(graphInput) >= 1) =>
        LET L == Len(graphInput)
            N == result.toneBytes \div 2
            tenths == IF L >= 30 THEN 30 ELSE L
        IN  /\ result.toneBytes = 2 * N
            /\ N > 0
            /\ 10 * N <= 22050 * tenths
            /\ 22050 * tenths < 10 * (N + 1)
            /\ L >= 30 => N = 66150
            /\ readUInt32LE(result.head, 40) = 2 * N
            /\ calls[Len(calls)] = Call("tertiary", graphInput)

C11_Witness ==
    /\ result.kind = "tone"
    /\ Len(graphInput) = 31
    /\ result.toneBytes = 132300
    /\ failure = "primary_empty"
    /\ pc = "responded"

\* The text of a POST /tts body that must be refused: absent, not a string,
\* empty, whitespace only, or longer than 5000 characters.
RefusedText(body) ==
    \/ body.kind # "string"
    \/ IsBlankText(body.s)
    \/ Len(body.s) > 5000

\* C12: a POST /tts request with such a text is answered with 400 at once:
\* no translation call, no synthesis tier and no tone generation is invoked.
C12_InvalidTextRejected ==
    (route = "tts" /\ RefusedText(text)) =>
        /\ pc = "responded"
        /\ responses = <<400>>
        /\ Len(replies) = 1 /\ replies[1].status = 400
        /\ calls = <<>>
        /\ \A e \in {"translation", "tts"} : execs[e].created = 0
        /\ result = NoBuffer
        /\ genOutcome = "none"

C12_Witness ==
    /\ route = "tts"
    /\ text = [kind |-> "string", s |-> <<" ", "\n">>]
    /\ apiKey = "valid"
    /\ responses = <<400>>
\* The primary stream was drained to its end (the executor was released after
\* the drain loop) and gave no sample.
DrainedEmpty == execs["tts"].released = 1 /\ allAudioData = <<>>

\* C14 (as stated): when the primary stream drains to completion with zero
\* samples, generateTTSAudio ends in a failure that reaches the caller, and
\* neither the secondary tier nor the tone generator is invoked.
C14_EmptyAudioIsFailure ==
    DrainedEmpty =>
        /\ CallsTo("secondary") = {}
        /\ CallsTo("tertiary") = {}
        /\ GenReturned => genOutcome = "threw"
        /\ pc = "responded" => responses = <<500>>

\* C14 (amended): when the primary stream drains to completion with zero
\* samples, nothing is encoded and the primary tier counts as failed: the
\* secondary tier is invoked with the same input text and then, if it gives
\* no audio, the tone generator; generateTTSAudio returns audio, not a failure.
C14_EmptyAudioFallsBack ==
    DrainedEmpty =>
        /\ failure = "primary_empty"
        /\ audioBuffer = NoBuffer
        /\ \E j \in CallsTo("secondary") :
                /\ calls[j].text = graphInput
                /\ \E i \in CallsTo("primary") : i < j
        /\ GenReturned => genOutcome = "returned" /\ result.kind \in {"rest", "tone"}
        /\ (pc = "responded" /\ HeaderSafe(language)) => responses = <<200>>

C14_Witness ==
    /\ DrainedEmpty
    /\ Len(chunks) = 2
    /\ chunks[1].hasAudio /\ ~chunks[2].hasAudio
    /\ text.s = <<"a">>
    /\ pc = "responded"
    /\ result.kind = "rest"
    /\ responses = <<200>>

\* C16: a 200 of POST /tts whose audio came from the secondary or the tertiary
\* tier is marked as degraded, with the tier: what the caller receives differs
\* from what it would receive for the same audio from the primary tier.
C16_DegradedIsMarked ==
    (route = "tts" /\ pc = "responded" /\ responses = <<200>>
        /\ result.kind \in {"rest", "tone"}) =>
        replies[1] # TtsAudioResponse([result EXCEPT !.kind = "wav"], language)

\* C17: once the caller has gone away during a drain, no further item is
\* pulled from the translation stream or the audio stream, and
\* generateTTSAudio returns no audio.
C17_CancelStopsDrain ==
    cancelled.happened =>
        /\ Len(deltas) + Len(chunks) = cancelled.pulled
        /\ result = NoBuffer

\* C20: the secondary tier is invoked only after the primary synthesis call
\* was issued (and failed); after a translation failure the primary tier is
\* attempted with the original text before any fallback tier runs.
C20_FallbackOnlyAfterPrimary ==
    /\ \A j \in CallsTo("secondary") : \E i \in CallsTo("primary") : i < j
    /\ \A j \in CallsTo("tertiary") : \E i \in CallsTo("primary") : i < j
    /\ (failure = "translation" /\ GenReturned) =>
            \E i \in CallsTo("primary") : calls[i].text = text.s
\* C13: with INWORLD_API_KEY missing, no request to POST /tts or to GET
\* /news-audio gets as far as a translation call, a synthesis tier or the tone
\* generator, no audio is returned or stored in the cache, and a POST /tts
\* request with a valid text is answered with the configuration failure.
C13_MissingKeyStopsSynthesis ==
    apiKey = "missing" =>
        /\ calls = <<>>
        /\ result = NoBuffer
        /\ DOMAIN audioCache = {}
        /\ \A i \in 1..Len(replies) : replies[i].body = Bytes(NoBuffer)
        /\ (route = "tts" /\ pc = "responded" /\ ~RefusedText(text)) =>
                responses = <<503>>

\* The texts the handlers themselves put into the `error` field.
FixedErrorTexts ==
    {"Text is required and must be a non-empty string",
     "Text is too long (max 5000 characters)",
     "TTS service temporarily unavailable. Please check your Inworld AI configuration.",
     "Internal server error during TTS generation",
     "Failed to fetch news and generate audio",
     "No news articles found",
     "Audio not found or expired"}

ErrorReplies == {i \in 1..Len(replies) : replies[i].status >= 400}

\* C15 (as stated): no response of POST /tts or GET /news-audio carries the
\* message of the error that was thrown, whatever NODE_ENV is.
C15_NoRawErrorMessage ==
    \A i \in ErrorReplies :
        /\ replies[i].json.error \in FixedErrorTexts
        /\ "details" \in DOMAIN replies[i].json =>
                replies[i].json.details = "undefined"

\* C15 (amended): the `error` field of every error response is one of the
\* handlers' fixed texts; the thrown error's message is carried only by the
\* `details` field of a 500, and only when NODE_ENV is 'development'.
C15_RawMessageOnlyInDevelopment ==
    \A i \in ErrorReplies :
        /\ replies[i].json.error \in FixedErrorTexts
        /\ "details" \in DOMAIN replies[i].json =>
                /\ replies[i].status = 500
                /\ nodeEnv # "development" => replies[i].json.details = "undefined"
                /\ nodeEnv = "development" =>
                        replies[i].json.details \notin FixedErrorTexts \cup {"undefined"}

C15_Witness ==
    /\ nodeEnv = "production"
    /\ route = "news"
    /\ pc = "responded"
    /\ responses = <<500>>
    /\ replies[1].json.details = "undefined"

\* C18: an entry of the audio cache, once stored under an id, is never
\* replaced or changed, so every later lookup of that id gets the bytes first
\* stored.
C18_CacheEntriesImmutable ==
    [][\A id \in DOMAIN audioCache :
            id \in DOMAIN audioCache' /\ audioCache'[id] = audioCache[id]]_vars

\* C19: GET /health answers 200 with a JSON body whose status is 'ok'.
C19_HealthStatusOk ==
    (route = "health" /\ pc = "responded") =>
        /\ Len(replies) = 1
        /\ replies[1].status = 200
        /\ replies[1].json.status = "ok"

\* The primary stream was drained to its end and gave at least one sample.
DrainedWithSamples ==
    execs["tts"].released = 1 /\ Len(allAudioData) >= 1

\* C21: when no translation is required and the primary stream drains with at
\* least one sample, the primary call is issued exactly once, with the
\* original text, generateTTSAudio returns the encoder's output for the
\* samples, and neither the secondary tier nor the tone generator is invoked.
C21_PrimaryAloneServes ==
    (InEnglishFamily(language) /\ DrainedWithSamples) =>
        /\ \E i \in CallsTo("primary") :
                CallsTo("primary") = {i} /\ calls[i].text = text.s
        /\ CallsTo("secondary") = {}
        /\ CallsTo("tertiary") = {}
        /\ GenReturned =>
                result = convertAudioDataToWAV(allAudioData, ToneSampleRate)

\* A next() of the primary stream threw before done.
PrimaryThrew == failure = "primary_throw"

\* The buffers a tier after the primary one can return for the input.
LaterTierAudio ==
    {generateTestAudio(graphInput)}
    \cup {[kind |-> "rest", head |-> <<>>, body |-> Base64Decode(r.audioContent),
           toneBytes |-> 0] : r \in {x \in RestResponses : x.audioContent # <<>>}}

\* C22: a partially drained primary stream never becomes a result: when a
\* next() throws before done, the samples accumulated so far are not encoded,
\* and the audio that is returned, sent or cached comes from a later tier.
C22_PartialDrainDiscarded ==
    PrimaryThrew =>
        /\ audioBuffer = NoBuffer
        /\ \E j \in CallsTo("secondary") : calls[j].text = graphInput
        /\ GenReturned => genOutcome = "returned" /\ result \in LaterTierAudio
        /\ (pc = "responded" /\ route = "tts" /\ HeaderSafe(language)) =>
                replies[1].body \in {Bytes(b) : b \in LaterTierAudio}
        /\ \A id \in DOMAIN audioCache :
                audioCache[id] \in {Bytes(b) : b \in LaterTierAudio}

C22_Witness ==
    /\ PrimaryThrew
    /\ Len(allAudioData) >= 1
    /\ route = "news"
    /\ pc = "responded"
    /\ DOMAIN audioCache # {}

\* A chunk without sample payload arrives in the drain loop.
BareChunkArrives ==
    /\ pc = "s_drain"
    /\ Len(chunks') = Len(chunks) + 1
    /\ ~chunks'[Len(chunks')].hasAudio

\* C23 (as stated): a chunk that arrives before done without sample payload
\* makes the primary tier fail with a synthesis failure, and the next
\* fallback tier is triggered.
C23_BareChunkFailsPrimary ==
    [][BareChunkArrives =>
            /\ failure' # "none"
            /\ pc' = "rest"
            /\ CallsTo("secondary")' # {}]_vars

\* C23 (amended): a chunk that arrives before done without sample payload is
\* skipped: the samples collected so far are kept, no tier fails and no
\* fallback tier is triggered by it, and the drain goes on with the next
\* chunk.
C23_BareChunkSkipped ==
    [][BareChunkArrives =>
            /\ allAudioData' = allAudioData
            /\ failure' = failure
            /\ calls' = calls
            /\ pc' = "s_drain"]_vars

C23_Witness ==
    /\ Len(chunks) = 2
    /\ chunks[1].hasAudio /\ chunks[1].data # <<>>
    /\ ~chunks[2].hasAudio
    /\ allAudioData = chunks[1].data
    /\ audioBuffer = convertAudioDataToWAV(chunks[1].data, ToneSampleRate)
    /\ failure = "primary_save"

\* The REST call returned normally, but its response carries no audioContent.
RestGaveNoAudio ==
    restResponse.kind = "response" /\ restResponse.audioContent = <<>>

\* C24: a REST response without audioContent counts as a failure of the
\* secondary tier: generateTTSAudio never returns an empty or undefined buffer
\* for it, the tone generator is invoked with the same input text, and its
\* tone is what is returned.
C24_NoAudioContentFallsToTone ==
    RestGaveNoAudio =>
        /\ genOutcome = "returned"
        /\ result = generateTestAudio(graphInput)
        /\ result.kind = "tone"
        /\ BufferLength(result) > 0
        /\ calls[Len(calls)] = Call("tertiary", graphInput)
        /\ \E j \in CallsTo("secondary") : j = Len(calls) - 1

C24_Witness ==
    /\ RestGaveNoAudio
    /\ failure = "primary_save"
    /\ pc = "responded"
    /\ responses = <<200>>
    /\ replies[1].body = Bytes(generateTestAudio(text.s))

\* The texts of a sequence of deltas, one after the other.
RECURSIVE Concat(_)
Concat(ds) ==
    IF ds = <<>> THEN <<>> ELSE Head(ds) \o Concat(Tail(ds))

\* The translation stream reports done: the drain loop is left by its break.
TranslationStreamDone == pc = "t_drain" /\ pc' = "s_exec"

\* C25 (as stated): for every streamed translation response, the translated
\* text is the concatenation of the delta texts in arrival order up to done,
\* and that text is what is passed to synthesis.
C25_ConcatenationIsSynthesized ==
    [][TranslationStreamDone =>
            /\ translatedText' = Concat(deltas')
            /\ graphInput' = Concat(deltas')
            /\ calls'[Len(calls')] = Call("primary", Concat(deltas'))]_vars

\* C25 (amended): for every streamed translation response, the translated
\* text is the concatenation of the delta texts in arrival order up to done,
\* empty deltas contributing nothing; that text is what is passed to
\* synthesis unless it is empty or whitespace only, in which case the original
\* text is passed.
C25_ConcatenationUnlessBlank ==
    [][/\ (pc = "t_drain" /\ pc' = "t_drain") => translatedText' = Concat(deltas')
       /\ TranslationStreamDone =>
            LET passed == IF IsBlankText(Concat(deltas')) THEN text.s
                          ELSE Concat(deltas')
            IN  /\ deltas' = deltas
                /\ translatedText' = Concat(deltas')
                /\ graphInput' = passed
                /\ calls'[Len(calls')] = Call("primary", passed)]_vars

C25_Witness ==
    /\ deltas = << <<" ">>, <<"b">> >>
    /\ translatedText = <<" ", "b">>
    /\ pc = "s_exec"
    /\ calls[Len(calls)] = Call("primary", <<" ", "b">>)

\* A text was handed to synthesis: generateTTSAudio returned for the request's
\* text, or the article's callback of GET /news-audio has ended.
TextProcessed ==
    \/ route = "tts" /\ GenReturned
    \/ route = "news" /\ text.kind = "string" /\ pc = "responded"

\* C26: for every text synthesized for a language that requires translation,
\* exactly one remote translation call is made: one per POST /tts request and
\* one per article of GET /news-audio, never zero and never two.
C26_ExactlyOneTranslation ==
    (TextProcessed /\ requiresTranslation(language)) =>
        Cardinality(CallsTo("translation")) = 1

\* Invocation i of generateTTSAudio is under way.
InFlight(i) == i \in DOMAIN inflight

\* C27: any two invocations of the pipeline that are under way at the same
\* time (two requests, or two articles under Promise.all) use distinct
\* identifiers for their graphs, nodes, components and executions.
C27_DistinctIdentifiers ==
    \A i, j \in 1..MaxInFlight :
        (i # j /\ InFlight(i) /\ InFlight(j)) =>
            inflight[i].ids \cap inflight[j].ids = {}

\* run() has called executor.execute(graphInput, ...) after a translation that
\* gave an empty or whitespace-only text.
CliBlankTranslationExecuted ==
    /\ cli.pc # "idle"
    /\ cli.executed # <<>>
    /\ IsBlankText(cli.translatedText)

\* C28: in run() of translate-graph.js, when the translation yields an empty
\* or whitespace-only text, synthesis is executed on the original input text,
\* not on the blank text.
C28_CliBlankUsesOriginal ==
    CliBlankTranslationExecuted =>
        /\ cli.executed = <<cli.text>>
        /\ cli.graphInput = cli.text

\* No operation of the view model is under way.
ViewAtRest == view.pc = "idle"

\* C30: after any sequence of nextArticle, previousArticle, refreshNews,
\* searchNews and debugFetchNews, whenever the article list is non-empty,
\* 0 <= currentArticleIndex < articles.count.
C30_IndexInRange ==
    (ViewAtRest /\ view.articles > 0) =>
        /\ 0 <= view.currentArticleIndex
        /\ view.currentArticleIndex < view.articles

\* What generateTTSAudio returns, step by step, for a text that needs no
\* translation is among the buffers the articles' callbacks are given.
GeneratedAudioCovers ==
    (GenReturned /\ ~requiresTranslation(language)) =>
        genOutcome = "returned" /\ result \in GeneratedAudio(text.s)

\* GET /news-audio has answered 200 with its processed articles.
BatchAnswered ==
    batch.pc = "responded" /\ batch.tasks # <<>> /\ Len(batch.replies) = 1

\* C29: in every response of GET /news-audio, each article with a non-null
\* audioId has a cache entry under that id; each article whose processing
\* threw has audioId null and audioUrl null and added no cache entry; and an
\* article's outcome (its audio, stored under its own id) is the same whatever
\* happened to the other articles.
C29_ArticlesIndependent ==
    BatchAnswered =>
        LET processed == batch.replies[1].json.articles
            stored == {i \in 1..Len(batch.tasks) : batch.tasks[i].pc = "stored"}
        IN  /\ Len(processed) = Len(batch.articles)
            /\ \A i \in 1..Len(processed) :
                    processed[i].audioId # <<>> =>
                        processed[i].audioId \in DOMAIN audioCache
            /\ \A i \in 1..Len(processed) :
                    batch.tasks[i].pc = "failed" =>
                        /\ processed[i].audioId = <<>>
                        /\ processed[i].audioUrl = <<>>
            /\ DOMAIN audioCache = {processed[i].audioId : i \in stored}
            /\ Cardinality(DOMAIN audioCache) = Cardinality(stored)
            /\ \A i \in stored :
                    /\ audioCache[processed[i].audioId] = Bytes(batch.tasks[i].audio)
                    /\ processed[i].audioLength = BufferLength(batch.tasks[i].audio)

C29_Witness ==
    /\ BatchAnswered
    /\ Len(batch.tasks) = 2
    /\ batch.tasks[1].pc = "stored" /\ batch.tasks[2].pc = "stored"
    /\ batch.tasks[1].audio.kind = "rest" /\ batch.tasks[2].audio.kind = "tone"
    /\ batch.replies[1].json.articles[1].audioId = AudioId(0, 0)
    /\ batch.replies[1].json.articles[2].audioId = AudioId(0, 1)
====
